---------------------------- MODULE Spec2Model ----------------------------
(***************************************************************************)
(* Model of iotserver.py: the MQTT callbacks, the reconnect timer, the     *)
(* main loop and the shutdown sequence.                                    *)
(*                                                                         *)
(* Three threads of control exist in the running script:                   *)
(*   - the main thread, which sits in loop() and then runs action_exit();  *)
(*   - the transport's network thread, which delivers the connect result,  *)
(*     the disconnect and every inbound message, one callback at a time;   *)
(*   - the timer thread, which runs cbTimer_mqtt_reconnect().              *)
(* A callback of the network thread is one atomic step.  The timer tick    *)
(* is two steps (the get_connected() test, then the reconnect() call), so  *)
(* that the other threads interleave with it.                              *)
(*                                                                         *)
(* The collaborators gbj_pythonlib_sw.mqtt and gbj_pythonlib_sw.timer are  *)
(* modelled by the calls the script makes on them: a call that the script  *)
(* wraps in try/except may raise, and the connection flag read through     *)
(* get_connected() is set by a connect result of 0 and cleared by a        *)
(* disconnect.                                                             *)
(*                                                                         *)
(* Spec describes the running script: its Init is the state in which      *)
(* loop() is entered, the state the setup_* steps of main() are written    *)
(* to establish.  SpecMain describes main() itself from the start of the   *)
(* process, step by step.  SpecPublish applies the two publishing          *)
(* operations in every connection state.  SpecFair is Spec with the main   *)
(* thread scheduled fairly.                                                *)
(***************************************************************************)
EXTENDS Integers, Sequences, FiniteSets, TLC

VARIABLES
    cmdline,        \* the parsed command line arguments
    service,        \* Script.service
    running,        \* Script.running
    iot_data,       \* iot_data['system']['temperature']: [value, percentage]
    connected,      \* what mqtt.get_connected() returns
    inflight,       \* connect attempts whose result is still pending
    filters,        \* topic filter callbacks registered (callback_filters)
    subscribed,     \* subscriptions of the current session established
    closed,         \* mqtt.disconnect() has been called by action_exit
    timers,         \* the registered timers are running (start/stop_timers)
    tpc,            \* position of the timer thread inside the tick
    pc,             \* position of the main thread
    exitDone,       \* calls of action_exit() already made
    exitCause,      \* how loop() was left
    last,           \* the operation executed by the latest step
    calls,          \* transport calls made by the latest step, in order
    log,            \* log records written by the latest step, in order
    raised,         \* exception that escaped the latest callback, or NoError
    online,         \* "Online" since the latest connect: publish calls
                    \* made (tries) and messages published (pubs)
    handled         \* an inbound message was handled since the latest connect

vars == <<cmdline, service, running, iot_data, connected, inflight, filters,
          subscribed, closed, timers, tpc, pc, exitDone, exitCause, last, calls,
          log, raised, online, handled>>

---------------------------------------------------------------------------
(* Bounds of the model *)

\* Cap on the connect attempts that may be pending at once.
MaxInflight == 2

\* Cap on the "Online" publishes counted within one session.
MaxPublish == 2

---------------------------------------------------------------------------
(* Values *)

NoError == "none"

\* A reading of the device state store: None or a float.
None == [isNone |-> TRUE, v |-> 0]

Float(n) == [isNone |-> FALSE, v |-> n]

\* message.payload is None
Absent == "<None>"

\* A payload that is not valid UTF-8 (the single byte 0xFF).
BadUtf8 == "<0xFF>"

Payloads == {Absent, BadUtf8, "EXIT", "STATUS", "25", "abc"}

\* bytes.decode("utf-8") raises UnicodeDecodeError on these payloads
DecodeRaises(payload) == payload = BadUtf8

\* float(message.payload): the payloads that parse, and their values
FloatTable == [p \in {"25", "100"} |-> IF p = "25" THEN 25 ELSE 100]

FloatRaises(payload) == payload \notin DOMAIN FloatTable

\* Result codes of a connect result and of a disconnect
ResultCodes == {0, 5}

---------------------------------------------------------------------------
(* Topics: mqtt.topic_name(option) and the three topic filters *)

topic_name ==
    [o \in {"iot_command_control", "system_temp_value",
            "system_temp_percentage", "mqtt_topic_fan_status",
            "fan_status_control", "fan_status_percon", "fan_status_percoff",
            "fan_status_tempon", "fan_status_tempoff", "fan_status_tempmax"}
       |-> CASE o = "iot_command_control"    -> "server/iot/command/control"
             [] o = "system_temp_value"      -> "server/system/temperature/value"
             [] o = "system_temp_percentage" -> "server/system/temperature/percentage"
             [] o = "mqtt_topic_fan_status"  -> "server/fan/lwt"
             [] o = "fan_status_control"     -> "server/fan/status/control"
             [] o = "fan_status_percon"      -> "server/fan/status/percon"
             [] o = "fan_status_percoff"     -> "server/fan/status/percoff"
             [] o = "fan_status_tempon"      -> "server/fan/status/tempon"
             [] o = "fan_status_tempoff"     -> "server/fan/status/tempoff"
             [] o = "fan_status_tempmax"     -> "server/fan/status/tempmax"]

IotTopics == {topic_name["iot_command_control"], "server/iot/other"}

SystemTopics == {topic_name["system_temp_value"],
                 topic_name["system_temp_percentage"],
                 "server/system/other"}

\* The fan topics delivered: one per name cbMqtt_fan reads unassigned
\* (`status` on the status topic, `value` on a parameter topic) and one
\* that no branch expects.
FanTopics == {topic_name[o] : o \in {"mqtt_topic_fan_status",
                                      "fan_status_percon"}}
             \cup {"server/fan/other"}

Topics == IotTopics \cup SystemTopics \cup FanTopics \cup {"other/topic"}

\* The callback the transport hands a message to: the filter callback whose
\* topic filter matches once the filters are registered, else the fallback.
Route(topic, registered) ==
    IF ~registered THEN "cbMqtt_on_message"
    ELSE IF topic \in IotTopics THEN "cbMqtt_iot"
    ELSE IF topic \in SystemTopics THEN "cbMqtt_system"
    ELSE IF topic \in FanTopics THEN "cbMqtt_fan"
    ELSE "cbMqtt_on_message"


---------------------------------------------------------------------------
(* Class attributes *)

\* The attributes class IoT defines
IoT == {"LWT"}

---------------------------------------------------------------------------
(* Log records and outcomes of a callback *)

Rec(level, msg) == [level |-> level, msg |-> msg]

MsgLog == Rec("debug", "MQTT topic, QoS, retain, payload")

Warned(lg) == \E i \in DOMAIN lg : lg[i].level = "warning"

\* What a message callback leaves behind: the run flag, the device state
\* store, the log records it wrote and the exception that escaped it.
Eff(run, data, lg, err) ==
    [running |-> run, iot_data |-> data, log |-> lg, raised |-> err]

---------------------------------------------------------------------------
(* Command mapping and actions *)

PARAMS_RESET == 0

GET_STATUS == 1

SCRIPT_EXIT == 2

map_command == [c \in {"STATUS", "EXIT"} |->
                   IF c = "STATUS" THEN GET_STATUS ELSE SCRIPT_EXIT]

\* action_iot() with the else branch forgetting to clear the run flag
action_iot_no_stop(action) ==
    IF action = SCRIPT_EXIT
    THEN IF service
         THEN [running |-> running,
               log |-> <<Rec("warning",
                    "Exiting the script in service mode is prohibited")>>]
         ELSE [running |-> running,
               log |-> <<Rec("warning", "Stop script")>>]
    ELSE [running |-> running, log |-> <<>>]

\* action_iot() setting the run flag again on the status command
action_iot_status_resumes(action) ==
    IF action = SCRIPT_EXIT
    THEN IF service
         THEN [running |-> running,
               log |-> <<Rec("warning",
                    "Exiting the script in service mode is prohibited")>>]
         ELSE [running |-> FALSE,
               log |-> <<Rec("warning", "Stop script")>>]
    ELSE IF action = GET_STATUS
    THEN [running |-> TRUE, log |-> <<>>]
    ELSE [running |-> running, log |-> <<>>]

\* action_iot() without the service mode guard
action_iot_unguarded(action) ==
    IF action = SCRIPT_EXIT
    THEN [running |-> FALSE, log |-> <<Rec("warning", "Stop script")>>]
    ELSE [running |-> running, log |-> <<>>]

\* action_iot(action): the run flag it leaves and the log records it writes
action_iot(action) ==
    IF action = SCRIPT_EXIT
    THEN IF service
         THEN [running |-> running,
               log |-> <<Rec("warning",
                    "Exiting the script in service mode is prohibited")>>]
         ELSE [running |-> FALSE,
               log |-> <<Rec("warning", "Stop script")>>]
    ELSE [running |-> running, log |-> <<>>]

---------------------------------------------------------------------------
(* Message callbacks *)

\* mqtt_message_log() reporting every payload as present
mqtt_message_log_always(payload) == TRUE

\* mqtt_message_log(message): the flag it returns
mqtt_message_log(payload) == payload # Absent

\* mqtt_message_log(message) decodes a present payload for the log record
MessageLogRaises(payload) == payload # Absent /\ DecodeRaises(payload)

\* cbMqtt_on_message() executing the exit command
cbMqtt_on_message_exits(topic, payload) ==
    IF MessageLogRaises(payload)
    THEN Eff(running, iot_data, <<>>, "UnicodeDecodeError")
    ELSE Eff(payload # "EXIT", iot_data, <<MsgLog>>, NoError)

cbMqtt_on_message(topic, payload) ==
    IF MessageLogRaises(payload)
    THEN Eff(running, iot_data, <<>>, "UnicodeDecodeError")
    ELSE Eff(running, iot_data, <<MsgLog>>, NoError)

\* cbMqtt_iot() executing the command whatever the topic
cbMqtt_iot_any_topic(topic, payload) ==
    IF MessageLogRaises(payload)
    THEN Eff(running, iot_data, <<>>, "UnicodeDecodeError")
    ELSE IF ~mqtt_message_log(payload)
    THEN Eff(running, iot_data, <<MsgLog>>, NoError)
    ELSE IF payload \notin DOMAIN map_command
    THEN Eff(running, iot_data,
             <<MsgLog, Rec("debug", "Received IoT command")>>,
             "KeyError")
    ELSE LET a == action_iot(map_command[payload])
         IN  Eff(a.running, iot_data,
                 <<MsgLog, Rec("debug", "Received IoT command")>> \o a.log,
                 NoError)

cbMqtt_iot(topic, payload) ==
    IF MessageLogRaises(payload)
    THEN Eff(running, iot_data, <<>>, "UnicodeDecodeError")
    ELSE IF ~mqtt_message_log(payload)
    THEN Eff(running, iot_data, <<MsgLog>>, NoError)
    ELSE IF topic = topic_name["iot_command_control"]
    THEN IF payload \notin DOMAIN map_command
         THEN Eff(running, iot_data,
                  <<MsgLog, Rec("debug", "Received IoT command")>>,
                  "KeyError")
         ELSE LET a == action_iot(map_command[payload])
              IN  Eff(a.running, iot_data,
                      <<MsgLog, Rec("debug", "Received IoT command")>>
                          \o a.log,
                      NoError)
    ELSE Eff(running, iot_data,
             <<MsgLog, Rec("warning", "Received unknown command")>>,
             NoError)

\* cbMqtt_system() setting the percentage from the temperature value
cbMqtt_system_derives(topic, payload) ==
    IF MessageLogRaises(payload)
    THEN Eff(running, iot_data, <<>>, "UnicodeDecodeError")
    ELSE IF ~mqtt_message_log(payload)
    THEN Eff(running, iot_data, <<MsgLog>>, NoError)
    ELSE LET value == IF FloatRaises(payload) THEN None
                      ELSE Float(FloatTable[payload])
         IN  IF topic = topic_name["system_temp_value"]
             THEN Eff(running, [iot_data EXCEPT !.value = value,
                                        !.percentage = value],
                      <<MsgLog,
                        Rec("debug", "Received system temperature value")>>,
                      NoError)
             ELSE IF topic = topic_name["system_temp_percentage"]
             THEN IF FloatRaises(payload)
                  THEN Eff(running, iot_data, <<MsgLog>>, "ValueError")
                  ELSE Eff(running,
                           [iot_data EXCEPT
                               !.percentage = Float(FloatTable[payload])],
                           <<MsgLog,
                             Rec("debug",
                                 "Received system temperature percentage")>>,
                           NoError)
             ELSE Eff(running, iot_data, <<MsgLog>>, NoError)

cbMqtt_system(topic, payload) ==
    IF MessageLogRaises(payload)
    THEN Eff(running, iot_data, <<>>, "UnicodeDecodeError")
    ELSE IF ~mqtt_message_log(payload)
    THEN Eff(running, iot_data, <<MsgLog>>, NoError)
    ELSE LET value == IF FloatRaises(payload) THEN None
                      ELSE Float(FloatTable[payload])
         IN  IF topic = topic_name["system_temp_value"]
             THEN Eff(running, [iot_data EXCEPT !.value = value],
                      <<MsgLog,
                        Rec("debug", "Received system temperature value")>>,
                      NoError)
             ELSE IF topic = topic_name["system_temp_percentage"]
             THEN IF FloatRaises(payload)
                  THEN Eff(running, iot_data, <<MsgLog>>, "ValueError")
                  ELSE Eff(running,
                           [iot_data EXCEPT
                               !.percentage = Float(FloatTable[payload])],
                           <<MsgLog,
                             Rec("debug",
                                 "Received system temperature percentage")>>,
                           NoError)
             ELSE Eff(running, iot_data, <<MsgLog>>, NoError)

\* Every branch of cbMqtt_fan reads a name that was never assigned: the
\* global `status`, or the local `value` outside the branch that sets it.
cbMqtt_fan(topic, payload) ==
    IF MessageLogRaises(payload)
    THEN Eff(running, iot_data, <<>>, "UnicodeDecodeError")
    ELSE IF ~mqtt_message_log(payload)
    THEN Eff(running, iot_data, <<MsgLog>>, NoError)
    ELSE IF topic = topic_name["mqtt_topic_fan_status"]
    THEN Eff(running, iot_data, <<MsgLog>>, "NameError")
    ELSE IF topic = topic_name["fan_status_control"]
    THEN Eff(running, iot_data, <<MsgLog>>, "NameError")
    ELSE IF topic \in {topic_name[o] : o \in
                 {"fan_status_percon", "fan_status_percoff",
                  "fan_status_tempon", "fan_status_tempoff",
                  "fan_status_tempmax"}}
    THEN Eff(running, iot_data, <<MsgLog>>, "UnboundLocalError")
    ELSE Eff(running, iot_data, <<MsgLog>>, "NameError")

\* The callback named `handler`, applied to the message
Handle(handler, topic, payload) ==
    CASE handler = "cbMqtt_iot"    -> cbMqtt_iot(topic, payload)
      [] handler = "cbMqtt_system" -> cbMqtt_system(topic, payload)
      [] handler = "cbMqtt_fan"    -> cbMqtt_fan(topic, payload)
      [] OTHER                     -> cbMqtt_on_message(topic, payload)

---------------------------------------------------------------------------
(* Connection callbacks *)

\* What a connection callback does: the transport calls it makes, the log
\* records it writes, whether it registers the filter callbacks, whether
\* its subscribe request took effect and how many "Online" it published.
Conn(cs, lg, reg, sub, pubs) ==
    [calls |-> cs, log |-> lg, filters |-> reg, subscribed |-> sub,
     published |-> pubs]

\* The calls of mqtt.publish() with the "Online" payload among cs
OnlineTries(cs) == Cardinality({i \in DOMAIN cs : cs[i] = "publish:Online"})

\* setup_mqtt_filters() registering the callbacks without subscribing
setup_mqtt_filters_no_subscribe(subOk) ==
    Conn(<<"callback_filters">>, <<>>, TRUE, FALSE, 0)

\* setup_mqtt_filters(): subOk tells whether mqtt.subscribe_filters() returns
setup_mqtt_filters(subOk) ==
    Conn(<<"callback_filters", "subscribe_filters">>,
         IF subOk THEN <<>>
         ELSE <<Rec("error", "MQTT subscribtion to topic filters failed")>>,
         TRUE, subOk, 0)

\* mqtt_publish_iot_lwt_online() reconnecting inline when the publish raises
mqtt_publish_iot_lwt_online_retrying(isConnected, pubOk) ==
    IF ~isConnected
    THEN Conn(<<>>, <<>>, FALSE, FALSE, 0)
    ELSE IF pubOk
    THEN Conn(<<"publish:Online">>, <<Rec("debug", "Published LWT")>>,
              FALSE, FALSE, 1)
    ELSE Conn(<<"publish:Online", "reconnect">>,
              <<Rec("error", "Publishing LWT failed")>>, FALSE, FALSE, 0)

\* mqtt_publish_iot_lwt_online() without the test of mqtt.get_connected()
mqtt_publish_iot_lwt_online_unguarded(isConnected, pubOk) ==
    IF pubOk
    THEN Conn(<<"publish:Online">>, <<Rec("debug", "Published LWT")>>,
              FALSE, FALSE, 1)
    ELSE Conn(<<"publish:Online">>,
              <<Rec("error", "Publishing LWT failed")>>, FALSE, FALSE, 0)

\* mqtt_publish_iot_lwt_online(): isConnected is mqtt.get_connected(),
\* pubOk tells whether mqtt.publish() returns
mqtt_publish_iot_lwt_online(isConnected, pubOk) ==
    IF ~isConnected
    THEN Conn(<<>>, <<>>, FALSE, FALSE, 0)
    ELSE IF pubOk
    THEN Conn(<<"publish:Online">>, <<Rec("debug", "Published LWT")>>,
              FALSE, FALSE, 1)
    ELSE Conn(<<"publish:Online">>,
              <<Rec("error", "Publishing LWT failed")>>, FALSE, FALSE, 0)

\* mqtt_publish_cmd_fan_status(): the message is read from IoT.CMD_STATUS
\* before the try statement is entered
mqtt_publish_cmd_fan_status(isConnected, pubOk) ==
    IF ~isConnected
    THEN [calls |-> <<>>, log |-> <<>>, raised |-> NoError]
    ELSE IF "CMD_STATUS" \notin IoT
    THEN [calls |-> <<>>, log |-> <<>>, raised |-> "AttributeError"]
    ELSE IF pubOk
    THEN [calls |-> <<"publish:CMD_STATUS">>,
          log |-> <<Rec("debug", "Published server cooling fan command")>>,
          raised |-> NoError]
    ELSE [calls |-> <<"publish:CMD_STATUS">>,
          log |-> <<Rec("error", "Publishing cooling fan command failed")>>,
          raised |-> NoError]

\* The calls of mqtt.publish() among cs
Publishes(cs) ==
    {i \in DOMAIN cs : cs[i] \in {"publish:Online", "publish:CMD_STATUS"}}

\* cbMqtt_on_connect() without the presence publish
cbMqtt_on_connect_silent(rc, isConnected, subOk, pubOk) ==
    IF rc = 0
    THEN LET f == setup_mqtt_filters(subOk)
         IN  Conn(f.calls, <<Rec("debug", "Connected")>> \o f.log,
                  f.filters, f.subscribed, 0)
    ELSE Conn(<<>>, <<Rec("error", "Connection to MQTT broker failed")>>,
              FALSE, FALSE, 0)

cbMqtt_on_connect(rc, isConnected, subOk, pubOk) ==
    IF rc = 0
    THEN LET f == setup_mqtt_filters(subOk)
             o == mqtt_publish_iot_lwt_online(isConnected, pubOk)
         IN  Conn(f.calls \o o.calls,
                  <<Rec("debug", "Connected")>> \o f.log \o o.log,
                  f.filters, f.subscribed, o.published)
    ELSE Conn(<<>>, <<Rec("error", "Connection to MQTT broker failed")>>,
              FALSE, FALSE, 0)

\* cbMqtt_on_disconnect() reconnecting inline after a connection loss
cbMqtt_on_disconnect_retry(rc) ==
    IF rc = 0
    THEN Conn(<<>>, <<Rec("warning", "Disconnected")>>, FALSE, FALSE, 0)
    ELSE Conn(<<"reconnect">>, <<Rec("warning", "Disconnected")>>,
              FALSE, FALSE, 0)

cbMqtt_on_disconnect(rc) ==
    Conn(<<>>, <<Rec("warning", "Disconnected")>>, FALSE, FALSE, 0)

\* The connect attempts a sequence of transport calls starts
Attempts(cs) == Cardinality({i \in DOMAIN cs : cs[i] \in {"connect", "reconnect"}})

Min(a, b) == IF a < b THEN a ELSE b

---------------------------------------------------------------------------
(* Reconnect timer *)

\* cbTimer_mqtt_reconnect() without the test of mqtt.get_connected()
cbTimer_mqtt_reconnect_always(isConnected) == "reconnect"

\* cbTimer_mqtt_reconnect(): what the tick does after reading
\* mqtt.get_connected()
cbTimer_mqtt_reconnect(isConnected) ==
    IF isConnected THEN "return" ELSE "reconnect"

---------------------------------------------------------------------------
(* Shutdown sequence *)

\* action_exit() closing the transport before it stops the timers
action_exit_swapped == <<"disconnect", "stop_timers">>

\* action_exit(): the calls it makes, in order
action_exit == <<"stop_timers", "disconnect">>

---------------------------------------------------------------------------
(* State machine *)

Op(name) == [op |-> name, handler |-> "-", topic |-> "-", payload |-> "-",
             rc |-> 0]

\* The interpreter has exited: main() returned and no timer thread is left
Terminated == pc = "done" /\ tpc = "idle"

Init ==
    /\ cmdline = [parsed |-> TRUE, verbose |-> "debug", loglevel |-> "debug",
                  configuration |-> FALSE]
    /\ service \in BOOLEAN
    /\ running = TRUE
    /\ iot_data = [value |-> None, percentage |-> None]
    /\ connected = FALSE
    /\ inflight \in {0, 1}
    /\ filters = FALSE
    /\ subscribed = FALSE
    /\ closed = "open"
    /\ timers = TRUE
    /\ tpc = "idle"
    /\ pc = "loop"
    /\ exitDone = 0
    /\ exitCause = "none"
    /\ last = Op("setup")
    /\ calls = <<>>
    /\ log = <<>>
    /\ raised = NoError
    /\ online = [tries |-> 0, pubs |-> 0]
    /\ handled = FALSE

\* The transport delivers an inbound message to the callback it routes to.
Deliver(topic, payload) ==
    /\ ~Terminated
    /\ connected
    /\ subscribed
    /\ LET handler == Route(topic, filters)
           e == Handle(handler, topic, payload)
       IN  /\ running' = e.running
           /\ iot_data' = e.iot_data
           /\ log' = e.log
           /\ raised' = e.raised
           /\ last' = [op |-> "message", handler |-> handler,
                       topic |-> topic, payload |-> payload, rc |-> 0]
    /\ calls' = <<>>
    /\ handled' = TRUE
    /\ UNCHANGED <<cmdline, service, connected, inflight, filters, subscribed, closed,
                   timers, tpc, pc, exitDone, exitCause, online>>

\* The broker answers a pending connect attempt with result code rc.
ConnectResult(rc, subOk, pubOk) ==
    /\ ~Terminated
    /\ inflight > 0
    /\ connected' = (connected \/ rc = 0)
    /\ LET c == cbMqtt_on_connect(rc, connected', subOk, pubOk)
       IN  /\ calls' = c.calls
           /\ log' = c.log
           /\ filters' = (filters \/ c.filters)
           /\ subscribed' = IF rc = 0 THEN c.subscribed ELSE subscribed
           /\ online' = IF rc = 0
                        THEN [tries |-> OnlineTries(c.calls),
                              pubs |-> c.published]
                        ELSE [tries |-> online.tries + OnlineTries(c.calls),
                              pubs |-> online.pubs + c.published]
           /\ inflight' = Min(MaxInflight, inflight - 1 + Attempts(c.calls))
    /\ handled' = IF rc = 0 THEN FALSE ELSE handled
    /\ raised' = NoError
    /\ last' = [Op("on_connect") EXCEPT !.rc = rc]
    /\ UNCHANGED <<cmdline, service, running, iot_data, closed, timers, tpc, pc,
                   exitDone, exitCause>>

\* The session ends: rc = 0 after mqtt.disconnect(), another code when the
\* connection is lost.
Disconnected(rc) ==
    /\ ~Terminated
    /\ connected
    /\ rc = 0 => closed # "open"
    /\ connected' = FALSE
    /\ subscribed' = FALSE
    /\ LET c == cbMqtt_on_disconnect(rc)
       IN  /\ calls' = c.calls
           /\ log' = c.log
           /\ online' = [tries |-> online.tries + OnlineTries(c.calls),
                         pubs |-> online.pubs + c.published]
           /\ inflight' = Min(MaxInflight, inflight + Attempts(c.calls))
    /\ raised' = NoError
    /\ last' = [Op("on_disconnect") EXCEPT !.rc = rc]
    /\ UNCHANGED <<cmdline, service, running, iot_data, filters, closed, timers, tpc,
                   pc, exitDone, exitCause, handled>>

\* The reconnect timer fires: the tick reads the connection flag.
TickStart ==
    /\ timers
    /\ tpc = "idle"
    /\ pc # "done"
    /\ IF cbTimer_mqtt_reconnect(connected) = "return"
       THEN /\ tpc' = "idle"
            /\ log' = <<>>
       ELSE /\ tpc' = "reconnect"
            /\ log' = <<Rec("warning", "Reconnecting to MQTT broker")>>
    /\ calls' = <<>>
    /\ raised' = NoError
    /\ last' = Op("tick")
    /\ UNCHANGED <<cmdline, service, running, iot_data, connected, inflight, filters,
                   subscribed, closed, timers, pc, exitDone, exitCause,
                   online, handled>>

\* The tick calls mqtt.reconnect(); ok tells whether the call returns.
TickReconnect(ok) ==
    /\ tpc = "reconnect"
    /\ ok => inflight < MaxInflight
    /\ tpc' = "idle"
    /\ calls' = <<"reconnect">>
    /\ inflight' = IF ok THEN inflight + 1 ELSE inflight
    /\ log' = IF ok THEN <<>>
              ELSE <<Rec("error", "Reconnection to MQTT broker failed")>>
    /\ raised' = NoError
    /\ last' = Op("tick_reconnect")
    /\ UNCHANGED <<cmdline, service, running, iot_data, connected, filters,
                   subscribed, closed, timers, pc, exitDone, exitCause,
                   online, handled>>

\* loop(): the while loop sees the run flag cleared.
LoopFinished ==
    /\ pc = "loop"
    /\ ~running
    /\ pc' = "action_exit"
    /\ exitCause' = "finished"
    /\ log' = <<Rec("info", "Script finished")>>
    /\ calls' = <<>>
    /\ raised' = NoError
    /\ last' = Op("loop")
    /\ UNCHANGED <<cmdline, service, running, iot_data, connected, inflight, filters,
                   subscribed, closed, timers, tpc, exitDone, online,
                   handled>>

\* loop(): KeyboardInterrupt or SystemExit is raised in the main thread.
LoopInterrupted(cause) ==
    /\ pc = "loop"
    /\ pc' = "action_exit"
    /\ exitCause' = cause
    /\ log' = <<Rec("info", "Script cancelled from keyboard")>>
    /\ calls' = <<>>
    /\ raised' = NoError
    /\ last' = Op("loop")
    /\ UNCHANGED <<cmdline, service, running, iot_data, connected, inflight, filters,
                   subscribed, closed, timers, tpc, exitDone, online,
                   handled>>

\* action_exit(): its next call.
ExitStep ==
    /\ pc = "action_exit"
    /\ LET call == action_exit[exitDone + 1]
       IN  /\ timers' = IF call = "stop_timers" THEN FALSE ELSE timers
           /\ closed' = IF call # "disconnect" THEN closed
                        ELSE IF connected THEN "closed:connected"
                        ELSE "closed:disconnected"
           /\ calls' = <<call>>
    /\ exitDone' = exitDone + 1
    /\ pc' = IF exitDone + 1 = Len(action_exit) THEN "done" ELSE pc
    /\ log' = <<>>
    /\ raised' = NoError
    /\ last' = Op("action_exit")
    /\ UNCHANGED <<cmdline, service, running, iot_data, connected, inflight, filters,
                   subscribed, tpc, exitCause, online, handled>>

Next ==
    \/ \E topic \in Topics, payload \in Payloads : Deliver(topic, payload)
    \/ \E rc \in ResultCodes, subOk \in BOOLEAN, pubOk \in BOOLEAN :
           ConnectResult(rc, subOk, pubOk)
    \/ \E rc \in ResultCodes : Disconnected(rc)
    \/ TickStart
    \/ \E ok \in BOOLEAN : TickReconnect(ok)
    \/ LoopFinished
    \/ \E cause \in {"KeyboardInterrupt", "SystemExit"} : LoopInterrupted(cause)
    \/ ExitStep

Spec == Init /\ [][Next]_vars

TypeOK ==
    /\ service \in BOOLEAN
    /\ running \in BOOLEAN
    /\ connected \in BOOLEAN
    /\ inflight \in 0..MaxInflight
    /\ pc \in {"loop", "action_exit", "done"}
    /\ exitDone \in 0..Len(action_exit)
    /\ tpc \in {"idle", "reconnect"}

\* The main thread gets to run: the loop polls the run flag every 10 ms
\* and action_exit() makes its calls one after the other.
SpecFair == Spec /\ WF_vars(LoopFinished) /\ WF_vars(ExitStep)

---------------------------------------------------------------------------
(* The publishing operations, applied in every connection state *)

\* mqtt_publish_iot_lwt_online() is called.
PublishLwtOnline(pubOk) ==
    /\ online.tries < MaxPublish
    /\ LET o == mqtt_publish_iot_lwt_online(connected, pubOk)
       IN  /\ calls' = o.calls
           /\ log' = o.log
           /\ online' = [tries |-> online.tries + OnlineTries(o.calls),
                         pubs |-> online.pubs + o.published]
    /\ raised' = NoError
    /\ last' = Op("publish_iot_lwt_online")
    /\ UNCHANGED <<cmdline, service, running, iot_data, connected, inflight,
                   filters, subscribed, closed, timers, tpc, pc, exitDone,
                   exitCause, handled>>

\* mqtt_publish_cmd_fan_status() is called.
PublishCmdFanStatus(pubOk) ==
    /\ LET o == mqtt_publish_cmd_fan_status(connected, pubOk)
       IN  /\ calls' = o.calls
           /\ log' = o.log
           /\ raised' = o.raised
    /\ last' = Op("publish_cmd_fan_status")
    /\ UNCHANGED <<cmdline, service, running, iot_data, connected, inflight,
                   filters, subscribed, closed, timers, tpc, pc, exitDone,
                   exitCause, online, handled>>

NextPublish ==
    \/ \E rc \in ResultCodes, subOk \in BOOLEAN, pubOk \in BOOLEAN :
           ConnectResult(rc, subOk, pubOk)
    \/ \E rc \in ResultCodes : Disconnected(rc)
    \/ TickStart
    \/ \E ok \in BOOLEAN : TickReconnect(ok)
    \/ \E pubOk \in BOOLEAN : PublishLwtOnline(pubOk)
    \/ \E pubOk \in BOOLEAN : PublishCmdFanStatus(pubOk)

SpecPublish == Init /\ [][NextPublish]_vars

---------------------------------------------------------------------------
(* Startup: main() from the start of the process *)

\* The values of the options --verbose and --loglevel
LogLevels == {"debug", "info", "warning", "error", "critical"}

\* setup_mqtt(): the arguments of mqtt.lwt() are read from class IoT before
\* the call; connectOk tells whether mqtt.connect() returns
setup_mqtt(connectOk) ==
    IF "OFFLINE" \notin IoT \/ "LWT" \notin IoT
    THEN [calls |-> <<"MqttBroker">>, log |-> <<>>,
          raised |-> "AttributeError", will |-> "none"]
    ELSE IF connectOk
    THEN [calls |-> <<"MqttBroker", "lwt", "connect">>, log |-> <<>>,
          raised |-> NoError, will |-> "Offline"]
    ELSE [calls |-> <<"MqttBroker", "lwt", "connect">>,
          log |-> <<Rec("error", "Connection to MQTT broker failed")>>,
          raised |-> NoError, will |-> "Offline"]

\* The process starts: the module is loaded, main() is about to run.
InitMain ==
    /\ cmdline = [parsed |-> FALSE, verbose |-> "debug", loglevel |-> "debug",
                  configuration |-> FALSE]
    /\ service = FALSE
    /\ running = TRUE
    /\ iot_data = [value |-> None, percentage |-> None]
    /\ connected = FALSE
    /\ inflight = 0
    /\ filters = FALSE
    /\ subscribed = FALSE
    /\ closed = "open"
    /\ timers = FALSE
    /\ tpc = "idle"
    /\ pc = "setup_params"
    /\ exitDone = 0
    /\ exitCause = "none"
    /\ last = Op("start")
    /\ calls = <<>>
    /\ log = <<>>
    /\ raised = NoError
    /\ online = [tries |-> 0, pubs |-> 0]
    /\ handled = FALSE

\* A setup step that touches neither the transport nor the device state
MainStep(from, to, name, lg) ==
    /\ pc = from
    /\ pc' = to
    /\ last' = Op(name)
    /\ log' = lg
    /\ calls' = <<>>
    /\ raised' = NoError
    /\ UNCHANGED <<running, iot_data, connected, inflight, filters,
                   subscribed, closed, timers, tpc, exitDone, exitCause,
                   online, handled>>

\* setup_params(): isService is what modUtils.check_service() answers
SetupParams(isService) ==
    /\ MainStep("setup_params", "setup_cmdline", "setup_params", <<>>)
    /\ service' = isService
    /\ UNCHANGED cmdline

\* setup_cmdline(): the options the script is started with
SetupCmdline(verbose, loglevel, configuration) ==
    /\ MainStep("setup_cmdline", "setup_logger", "setup_cmdline", <<>>)
    /\ cmdline' = [parsed |-> TRUE, verbose |-> verbose,
                   loglevel |-> loglevel, configuration |-> configuration]
    /\ UNCHANGED service

SetupLogger ==
    /\ MainStep("setup_logger", "setup_config", "setup_logger",
                <<Rec("info", "Script started")>>)
    /\ UNCHANGED <<cmdline, service>>

SetupConfig ==
    /\ MainStep("setup_config", "setup_mqtt", "setup_config", <<>>)
    /\ UNCHANGED <<cmdline, service>>

\* setup_mqtt(): an error it raises ends main() and with it the process
SetupMqtt(connectOk) ==
    /\ pc = "setup_mqtt"
    /\ LET m == setup_mqtt(connectOk)
       IN  /\ calls' = m.calls
           /\ log' = m.log
           /\ raised' = m.raised
           /\ pc' = IF m.raised = NoError THEN "setup_timers" ELSE "crashed"
           /\ inflight' = IF m.raised = NoError /\ connectOk THEN 1 ELSE 0
    /\ last' = Op("setup_mqtt")
    /\ UNCHANGED <<cmdline, service, running, iot_data, connected, filters,
                   subscribed, closed, timers, tpc, exitDone, exitCause,
                   online, handled>>

NextMain ==
    \/ \E isService \in BOOLEAN : SetupParams(isService)
    \/ \E verbose \in LogLevels, loglevel \in LogLevels,
          configuration \in BOOLEAN :
           SetupCmdline(verbose, loglevel, configuration)
    \/ SetupLogger
    \/ SetupConfig
    \/ \E connectOk \in BOOLEAN : SetupMqtt(connectOk)

SpecMain == InitMain /\ [][NextMain]_vars

---------------------------------------------------------------------------
(* Properties *)

\* The latest step handed a message to `handler`
Handled(handler) == last.op = "message" /\ last.handler = handler

CommandTopic == topic_name["iot_command_control"]

ValueTopic == topic_name["system_temp_value"]

PercentageTopic == topic_name["system_temp_percentage"]

\* The records the except clauses around the transport calls write
TransportErrors ==
    {Rec("error", "MQTT subscribtion to topic filters failed"),
     Rec("error", "Publishing LWT failed"),
     Rec("error", "Reconnection to MQTT broker failed")}

\* The calls action_exit() has made so far
ExitCalls == SubSeq(action_exit, 1, exitDone)

\* C1: a message whose payload is absent, delivered to any of the four
\* callbacks, raises nothing and leaves iot_data and Script.running as
\* they were.
C1_AbsentPayloadIsNoOp ==
    [][(last'.op = "message" /\ last'.payload = Absent)
          => /\ raised' = NoError
             /\ iot_data' = iot_data
             /\ running' = running]_vars

\* An absent payload reached cbMqtt_system while a reading was stored.
C1_Witness ==
    /\ Handled("cbMqtt_system")
    /\ last.payload = Absent
    /\ last.topic = ValueTopic
    /\ ~iot_data.value.isNone

\* C2: a present payload of text that does not parse as a number, delivered to
\* cbMqtt_system on the value topic or on the percentage topic, leaves the
\* stored readings as they were and raises nothing.
C2_ParseFailureKeepsReading ==
    [][(/\ last'.op = "message"
        /\ last'.handler = "cbMqtt_system"
        /\ last'.topic \in {ValueTopic, PercentageTopic}
        /\ last'.payload # Absent
        /\ ~DecodeRaises(last'.payload)
        /\ FloatRaises(last'.payload))
          => /\ iot_data' = iot_data
             /\ raised' = NoError]_vars

\* C3: "EXIT" on the command topic clears the run flag outside service
\* mode; in service mode the run flag stays true and the callback only
\* writes the warning.
C3_ExitCommand ==
    [][(/\ last'.op = "message"
        /\ last'.handler = "cbMqtt_iot"
        /\ last'.topic = CommandTopic
        /\ last'.payload = "EXIT")
          => /\ raised' = NoError
             /\ iot_data' = iot_data
             /\ IF service
                THEN /\ running' = running
                     /\ running' = TRUE
                     /\ Rec("warning",
                          "Exiting the script in service mode is prohibited")
                            = log'[Len(log')]
                     /\ Rec("warning", "Stop script")
                            \notin {log'[i] : i \in DOMAIN log'}
                ELSE running' = FALSE]_vars

\* "EXIT" arrived on the command topic outside service mode.
C3_Witness ==
    /\ Handled("cbMqtt_iot")
    /\ last.topic = CommandTopic
    /\ last.payload = "EXIT"
    /\ ~service
    /\ ~running
    /\ pc = "loop"

\* C4: a text token on the command topic that the mapping table does not
\* hold is answered by a warning: nothing is raised, and the run flag and
\* iot_data stay as they were.
C4_UnknownTokenWarns ==
    [][(/\ last'.op = "message"
        /\ last'.handler = "cbMqtt_iot"
        /\ last'.topic = CommandTopic
        /\ last'.payload # Absent
        /\ ~DecodeRaises(last'.payload)
        /\ last'.payload \notin DOMAIN map_command)
          => /\ raised' = NoError
             /\ Warned(log')
             /\ running' = running
             /\ iot_data' = iot_data]_vars

\* C5 as stated: after a connect result of 0 exactly one "Online" message
\* has been published, and it has been before a callback handles a message
\* of the session.
C5_OnlinePublishedOnce ==
    /\ (last.op = "on_connect" /\ last.rc = 0) => online.pubs = 1
    /\ handled => online.pubs = 1

\* C5, amended: the callback of a connect result of 0 calls mqtt.publish()
\* with "Online" exactly once, after the subscribe request and before any
\* message of the session is handled; the message is published once when
\* the call returns and not at all when it raises.
C5_OnlinePublishCalledOnce ==
    /\ (last.op = "on_connect" /\ last.rc = 0)
          => /\ calls = <<"callback_filters", "subscribe_filters",
                          "publish:Online">>
             /\ online.tries = 1
             /\ ~handled
    /\ handled => online.tries = 1
    /\ online.pubs <= online.tries
    /\ (last.op = "on_connect" /\ last.rc = 0)
          => (online.pubs = 1
                <=> Rec("error", "Publishing LWT failed")
                       \notin {log[i] : i \in DOMAIN log})

\* A message was handled in a session whose one "Online" was published,
\* no connect attempt pending.
C5_Witness ==
    /\ handled
    /\ last.op = "message"
    /\ online = [tries |-> 1, pubs |-> 1]
    /\ connected
    /\ inflight = 0

\* C6: when action_exit() has closed the transport of a connected session,
\* it has published "Offline" exactly once, before the disconnect.
C6_OfflineBeforeDisconnect ==
    closed = "closed:connected"
       => /\ Cardinality({i \in DOMAIN ExitCalls :
                             ExitCalls[i] = "publish:Offline"}) = 1
          /\ \E i, j \in DOMAIN ExitCalls :
                /\ i < j
                /\ ExitCalls[i] = "publish:Offline"
                /\ ExitCalls[j] = "disconnect"

\* C7: at most one connect attempt is pending at any instant.
C7_AtMostOneAttemptInFlight == inflight <= 1

\* C8: action_exit() stops the timers, then disconnects: the transport is
\* never closed while the timers run; and loop() is left, whatever the
\* cause, into action_exit(), which runs to its end in that order.
C8_TimersStoppedBeforeDisconnect ==
    /\ closed # "open" => ~timers
    /\ pc = "loop" => (exitCause = "none" /\ exitDone = 0 /\ timers
                          /\ closed = "open")
    /\ pc # "loop" => exitCause \in {"finished", "KeyboardInterrupt",
                                     "SystemExit"}
    /\ exitCause = "finished" => ~running
    /\ pc = "done" => (~timers /\ closed # "open"
                          /\ ExitCalls = <<"stop_timers", "disconnect">>)

\* loop() was left by SystemExit and action_exit() ran to its end.
C8_Witness ==
    /\ pc = "done"
    /\ exitCause = "SystemExit"
    /\ ~timers
    /\ closed = "closed:connected"

\* C9: in service mode the run flag stays true and loop() is left only by
\* KeyboardInterrupt or SystemExit; in any mode the run flag is cleared
\* only by "EXIT" on the command topic outside service mode.
C9_OnlyGuardedExitStops ==
    [][/\ service => running'
       /\ (running /\ ~running')
             => /\ ~service
                /\ last'.op = "message"
                /\ last'.handler = "cbMqtt_iot"
                /\ last'.topic = CommandTopic
                /\ last'.payload = "EXIT"
       /\ ~running => ~running'
       /\ (service /\ pc = "loop" /\ pc' # "loop")
             => exitCause' \in {"KeyboardInterrupt", "SystemExit"}]_vars

\* "EXIT" arrived on the command topic in service mode: the warning was
\* written and the script runs on in loop().
C9_Witness ==
    /\ service
    /\ Handled("cbMqtt_iot")
    /\ last.topic = CommandTopic
    /\ last.payload = "EXIT"
    /\ running
    /\ pc = "loop"
    /\ Warned(log)

\* C10: the callback of a failed connect result and the disconnect
\* callback make no transport call; a connect attempt is started by the
\* reconnect tick alone.
C10_RetryOnlyByTimer ==
    /\ (last.op = "on_connect" /\ last.rc # 0) => calls = <<>>
    /\ last.op = "on_disconnect" => calls = <<>>
    /\ Attempts(calls) > 0 => (last.op = "tick_reconnect"
                                  /\ calls = <<"reconnect">>)

\* The connection was lost with no attempt pending: none is pending after
\* the disconnect callback.
C10_Witness ==
    /\ last.op = "on_disconnect"
    /\ last.rc # 0
    /\ ~connected
    /\ inflight = 0
    /\ pc = "loop"

\* C11: a tick of the reconnect timer that reads a connected session does
\* nothing: no transport call, no change of the state.  A tick that reads
\* a session not connected calls mqtt.reconnect() exactly once; when the
\* call raises, the error is logged and nothing propagates, the timers
\* stay registered and the run flag is as it was.  No other step calls
\* mqtt.reconnect().
C11_ReconnectTick ==
    [][/\ (last'.op = "tick" /\ connected)
             => /\ calls' = <<>>
                /\ log' = <<>>
                /\ raised' = NoError
                /\ UNCHANGED <<service, running, iot_data, connected,
                               inflight, filters, subscribed, closed,
                               timers, tpc, pc, exitDone, online>>
       /\ (last'.op = "tick" /\ ~connected)
             => /\ tpc' = "reconnect"
                /\ calls' = <<>>
                /\ inflight' = inflight
       /\ (tpc = "reconnect" /\ tpc' = "idle")
             => /\ last'.op = "tick_reconnect"
                /\ calls' = <<"reconnect">>
                /\ raised' = NoError
                /\ timers' = timers
                /\ running' = running
                /\ pc' = pc
                /\ \/ inflight' = inflight + 1 /\ log' = <<>>
                   \/ /\ inflight' = inflight
                      /\ log' = <<Rec("error",
                                      "Reconnection to MQTT broker failed")>>
       /\ (tpc = "idle" /\ tpc' = "reconnect")
             => (last'.op = "tick" /\ ~connected)
       /\ Attempts(calls') > 0 => (tpc = "reconnect" /\ tpc' = "idle")]_vars

\* The call of mqtt.reconnect() raised in a tick: the error is logged, no
\* attempt is pending, the timers run and the script is in loop() with the
\* run flag set.
C11_Witness ==
    /\ last.op = "tick_reconnect"
    /\ calls = <<"reconnect">>
    /\ log = <<Rec("error", "Reconnection to MQTT broker failed")>>
    /\ inflight = 0
    /\ timers
    /\ running
    /\ pc = "loop"

\* C12 as stated: a connected session always has its subscriptions
\* established.
C12_ConnectedIsSubscribed == connected => subscribed

\* C12: the callback of every successful connect result registers the
\* filter callbacks, requests the subscriptions and then publishes
\* "Online", in that order and whether or not the subscribe request
\* raised; the subscriptions are established exactly when the request
\* returned, a failure being logged; a connected session has the filter
\* callbacks registered, and subscriptions exist on a connected session
\* only.
C12_ResubscribedOnConnect ==
    /\ (last.op = "on_connect" /\ last.rc = 0)
          => /\ calls = <<"callback_filters", "subscribe_filters",
                          "publish:Online">>
             /\ connected
             /\ filters
             /\ raised = NoError
             /\ subscribed
                   <=> (\A i \in DOMAIN log : log[i].level # "error"
                           \/ log[i].msg = "Publishing LWT failed")
             /\ ~subscribed
                   => (\E i \in DOMAIN log : log[i] =
                        Rec("error",
                            "MQTT subscribtion to topic filters failed"))
    /\ connected => filters
    /\ subscribed => connected

\* The subscribe request raised in the callback of a successful connect
\* result: the session is connected without subscriptions and "Online"
\* was published all the same.
C12_Witness ==
    /\ last.op = "on_connect"
    /\ last.rc = 0
    /\ connected
    /\ ~subscribed
    /\ online = [tries |-> 1, pubs |-> 1]
    /\ pc = "loop"

C14_TransportFailureCaught ==
    [][/\ (\E i \in DOMAIN log' : log'[i] \in TransportErrors)
             => /\ raised' = NoError
                /\ running' = running
                /\ iot_data' = iot_data
                /\ timers' = timers
                /\ pc' = pc
                /\ inflight' <= inflight
                /\ Attempts(calls') > 0
                      => (last'.op = "tick_reconnect"
                             /\ calls' = <<"reconnect">>)
       /\ inflight' > inflight
             => (last'.op = "tick_reconnect" /\ tpc = "reconnect")]_vars

\* Both the subscribe request and the "Online" publish raised in one
\* connect callback: the errors are logged, the reading stored before is
\* kept, the timers run and the script is in loop() with the run flag set.
C14_Witness ==
    /\ last.op = "on_connect"
    /\ \E i, j \in DOMAIN log :
          /\ log[i] = Rec("error", "MQTT subscribtion to topic filters failed")
          /\ log[j] = Rec("error", "Publishing LWT failed")
    /\ raised = NoError
    /\ iot_data.value = Float(25)
    /\ timers
    /\ running
    /\ pc = "loop"

\* C15: a message whose topic matches none of the three topic filters is
\* handed to cbMqtt_on_message(), which logs it once when its payload
\* decodes; whatever the payload, iot_data and the run flag are after the
\* callback what they were before it.
C15_DefaultHandlerKeepsState ==
    [][(last'.op = "message"
           /\ last'.topic \notin (IotTopics \cup SystemTopics \cup FanTopics))
          => /\ last'.handler = "cbMqtt_on_message"
             /\ running' = running
             /\ iot_data' = iot_data
             /\ pc' = pc
             /\ ~DecodeRaises(last'.payload) => log' = <<MsgLog>>
             /\ raised' # NoError
                   => (DecodeRaises(last'.payload) /\ log' = <<>>)]_vars

\* "EXIT" arrived outside service mode on a topic no filter matches, after
\* a reading was stored: the run flag is set and the reading is kept.
C15_Witness ==
    /\ Handled("cbMqtt_on_message")
    /\ last.topic = "other/topic"
    /\ last.payload = "EXIT"
    /\ ~service
    /\ running
    /\ iot_data.value = Float(25)
    /\ pc = "loop"

\* C16: setup_mqtt() registers the will with mqtt.lwt() before it calls
\* mqtt.connect(), and it returns without an error: main() goes on to
\* setup_timers().
C16_WillRegisteredBeforeConnect ==
    /\ last.op = "setup_mqtt"
          => /\ raised = NoError
             /\ \E i \in DOMAIN calls : calls[i] = "lwt"
    /\ \A j \in DOMAIN calls :
          calls[j] = "connect" => \E i \in 1..(j - 1) : calls[i] = "lwt"
    /\ pc # "crashed"

C18_FanHandlerCompletes ==
    [][(/\ last'.op = "message"
        /\ last'.handler = "cbMqtt_fan"
        /\ last'.payload # Absent
        /\ ~DecodeRaises(last'.payload))
          => /\ raised' = NoError
             /\ running' = running]_vars

\* C19: once the run flag is cleared (by "EXIT" on the command topic
\* outside service mode, the only step that clears it), loop() ends and
\* action_exit() runs to its end; it makes its two calls, stop_timers then
\* disconnect, once each and nothing of it runs again; no message, connect
\* result, disconnect or tick sets the run flag again.
C19_ExitTerminates ==
    /\ ~running ~> pc = "done"
    /\ [][~running => ~running']_vars
    /\ [][(running /\ ~running')
            => (~service /\ last'.payload = "EXIT"
                   /\ last'.topic = CommandTopic)]_vars
    /\ [](pc = "done" => ExitCalls = <<"stop_timers", "disconnect">>)
    /\ [][exitDone' \in {exitDone, exitDone + 1}]_vars
    /\ [][pc = "done"
            => (pc' = "done" /\ exitDone' = exitDone /\ ~timers'
                   /\ closed' = closed)]_vars

\* "EXIT" cleared the run flag, loop() ended for that reason and
\* action_exit() has made its last call.
C19_Witness ==
    /\ ~service
    /\ ~running
    /\ exitCause = "finished"
    /\ pc = "done"
    /\ last.op = "action_exit"
    /\ calls = <<"disconnect">>
    /\ ~timers

\* C20: once action_exit() has called mqtt.disconnect(), no tick calls
\* mqtt.reconnect(), not even a tick that was running when action_exit()
\* began.
C20_NoReconnectAfterDisconnect ==
    [][closed # "open" => ~(tpc = "reconnect" /\ tpc' = "idle")]_vars

\* C21: cbMqtt_iot() executes a command only when the topic of the message
\* is the command topic: on any other topic it leaves the run flag and
\* iot_data as they were and, the payload being present and decodable,
\* writes the warning about an unknown command and nothing else, "EXIT"
\* included.  "STATUS" on the command topic leaves the run flag and
\* iot_data as they were, raises nothing and warns of nothing, in service
\* mode and outside it.
C21_CommandTopicOnly ==
    [][(last'.op = "message" /\ last'.handler = "cbMqtt_iot")
          => /\ iot_data' = iot_data
             /\ running' # running => last'.topic = CommandTopic
             /\ last'.topic # CommandTopic
                   => /\ running' = running
                      /\ pc' = pc
                      /\ (last'.payload # Absent
                             /\ ~DecodeRaises(last'.payload))
                            => /\ raised' = NoError
                               /\ log' = <<MsgLog,
                                           Rec("warning",
                                               "Received unknown command")>>
             /\ (last'.topic = CommandTopic /\ last'.payload = "STATUS")
                   => /\ running' = running
                      /\ raised' = NoError
                      /\ ~Warned(log')]_vars

\* "EXIT" arrived outside service mode on a topic of the command filter
\* that is not the command topic: the warning was written and the run flag
\* is set.
C21_Witness ==
    /\ Handled("cbMqtt_iot")
    /\ last.topic # CommandTopic
    /\ last.payload = "EXIT"
    /\ ~service
    /\ running
    /\ Warned(log)
    /\ raised = NoError
    /\ pc = "loop"

===========================================================================
